---------------------------- MODULE Spec2Model ----------------------------
(***************************************************************************)
(* Level-order tree decoder of graph4nlp (StdTreeDecoder):                 *)
(*   get_dec_batch        linearization of the ground-truth trees          *)
(*   _run_forward_pass    teacher-forced training driver                   *)
(*   translate            greedy inference driver and final assembly       *)
(* Tensors of recurrent state are modelled by their provenance: the value  *)
(* of a state row is the name of the computation that produced it (zeros,  *)
(* the pooled graph embedding of a tree, or the output of decode step j of *)
(* queue position q).  The network's predictions are unconstrained inputs. *)
(***************************************************************************)
EXTENDS Integers, Sequences, FiniteSets, TLC

(* ------------------------------ bounds -------------------------------- *)
\* total number of child slots over all trees of a training batch
MaxNodes == 4
\* largest training batch
MaxBatch == 2
\* max_dec_seq_length / max_dec_tree_depth of the training decoder
TrainSeqLength == 4
TrainTreeDepth == 4
\* largest max_dec_seq_length / max_dec_tree_depth handed to translate
MaxSeqLength == 2
MaxTreeDepth == 3
\* decode_step: len(tgt_vocab), the out-of-vocabulary words of the source that
\* oov_dict adds to it, the number of source positions, and the number of equal
\* parts a probability of 1 is counted in
TgtVocabSize == 2
OovWords == 1
SrcLength == 2
ProbUnit == 2

(* --------------------------- vocabulary ids --------------------------- *)
PadId == 0
StartId == 1
EndId == 2
NonTerminalId == 4
LParenId == 5
\* ids of ordinary words of the target vocabulary
Terminals == {7}
\* teacher_force_ratio in percent, and the values random.random() may draw
TeacherForceRatios == {0, 50, 100}
RandomDraws == {0, 99}
\* argmax tokens the network may produce; in training the argmax only ever flows
\* into input_word, so one token that differs from the word ids is drawn there
TrainPredTokens == {NonTerminalId}
PredTokens == {EndId, NonTerminalId, 7}

(* ------------------------------- trees -------------------------------- *)
\* A Tree is [children |-> <<c1, ..., cn>>]; a child is a Tree or a word id.
Word(w) == [word |-> w]
Tree(cs) == [children |-> cs]
IsTree(c) == "children" \in DOMAIN c
num_children(t) == Len(t.children)

RECURSIVE ChildSeqs(_)
\* the children lists that use exactly n child slots in total
ChildSeqs(n) ==
  IF n = 0 THEN {<<>>}
  ELSE UNION { { <<c>> \o rest : c \in (IF k = 1 THEN {Word(w) : w \in Terminals} ELSE {})
                                         \cup {Tree(cs) : cs \in ChildSeqs(k - 1)},
                               rest \in ChildSeqs(n - k) } : k \in 1..n }

TreesOfSize(n) == {Tree(cs) : cs \in ChildSeqs(n)}

RECURSIVE BatchesOf(_, _)
\* the batches of b trees that use exactly n child slots in total
BatchesOf(b, n) ==
  IF b = 0 THEN (IF n = 0 THEN {<<>>} ELSE {})
  ELSE UNION { { <<t>> \o rest : t \in TreesOfSize(k), rest \in BatchesOf(b - 1, n - k) }
               : k \in 0..n }

Batches == UNION { BatchesOf(b, n) : b \in 1..MaxBatch, n \in 0..MaxNodes }

(* --------------------------- recurrent state -------------------------- *)
\* one row of a state tensor: comp is "c" (cell) or "h" (hidden)
Zeros(comp) == [comp |-> comp, src |-> "zeros", pos |-> 0, step |-> 0, row |-> 0]
Graph(comp, b) == [comp |-> comp, src |-> "graph", pos |-> 0, step |-> 0, row |-> b]
StepOut(comp, q, j, b) == [comp |-> comp, src |-> "step", pos |-> q, step |-> j, row |-> b]

VARIABLES
  mode,                \* "train" (_run_forward_pass) or "translate"
  pc,                  \* position in the running function
  err,                 \* "none" or the exception raised
  use_sibling,
  teacher_force_ratio,
  max_dec_seq_length,
  max_dec_tree_depth,
  tgt_tree_batch,
  queue_tree,          \* get_dec_batch: per tree, the list of queue entries
  dec_batch,           \* get_dec_batch: per queue position, the token matrix
  max_index,
  cur_index,
  dec_state,
  sibling_state,
  parent_h,
  step,                \* i of the inner loop of _run_forward_pass
  input_word,
  pred,
  loss,
  queue_decode,        \* translate: the decoding queue
  head,
  s,
  prev_word,
  i_child,
  result,
  prior,               \* the finished run on the batch before it was reordered
  copy_in,             \* decode_step: what the network computed before the mixing
  decoder_output,      \* decode_step: the distribution it returns
  input_src            \* decode_step: the token ids handed to the embedding lookup

vars == <<mode, pc, err, use_sibling, teacher_force_ratio, max_dec_seq_length,
          max_dec_tree_depth, tgt_tree_batch, queue_tree, dec_batch, max_index,
          cur_index, dec_state, sibling_state, parent_h, step, input_word, pred,
          loss, queue_decode, head, s, prev_word, i_child, result, prior,
          copy_in, decoder_output, input_src>>

trainVars == <<tgt_tree_batch, queue_tree, dec_batch, max_index, cur_index, dec_state,
               step, input_word, loss, teacher_force_ratio>>
translateVars == <<queue_decode, head, s, prev_word, i_child, result>>
configVars == <<mode, use_sibling, max_dec_seq_length, max_dec_tree_depth, prior,
                copy_in, decoder_output, input_src>>

tgt_batch_size == Len(tgt_tree_batch)
Rows == 1..tgt_batch_size

(* ---------------------------- get_dec_batch --------------------------- *)
\* mutation: every child is written as the placeholder
WList_Mutant(t) == [ic \in 1..num_children(t) |-> NonTerminalId]

\* w_list of one node: 4 for a child that is a Tree, the child itself otherwise
WList(t) ==
  [ic \in 1..num_children(t) |->
     IF IsTree(t.children[ic]) THEN NonTerminalId ELSE t.children[ic].word]

\* mutation: the 0-based position is recorded as child_index
ChildIndexOf_Mutant(ic) == ic

\* child_index recorded for the child at 0-based position ic
ChildIndexOf(ic) == ic + 1

\* mutation: the children are scanned from the last to the first
NewEntries_Mutant(t, cur) ==
  LET n == num_children(t)
      all == [k \in 1..n |->
                [tree |-> t.children[n + 1 - k], parent |-> cur,
                 child_index |-> ChildIndexOf(n - k)]]
  IN  SelectSeq(all, LAMBDA e : IsTree(e.tree))

\* mutation: an entry holds a new empty Tree in place of the child itself
NewEntries_Detached(t, cur) ==
  LET kids == SelectSeq([k \in 1..num_children(t) |-> k], LAMBDA k : IsTree(t.children[k]))
  IN  [n \in 1..Len(kids) |->
         [tree |-> Tree(<<>>), parent |-> cur, child_index |-> ChildIndexOf(kids[n] - 1)]]

\* the queue entries appended while scanning the children of t at position cur
NewEntries(t, cur) ==
  LET all == [k \in 1..num_children(t) |->
                [tree |-> t.children[k], parent |-> cur, child_index |-> ChildIndexOf(k - 1)]]
  IN  SelectSeq(all, LAMBDA e : IsTree(e.tree))

\* w_list of tree i at position cur (empty when the tree has no entry there)
WListAt(q, cur) == IF cur <= Len(q) THEN WList(q[cur].tree) ELSE <<>>

\* mutation: the end token overwrites the last token
EndPos_Mutant(n) == n

\* position of the end token in a row holding the n tokens of w_list
EndPos(n) == n + 1

\* the row of dec_batch[cur] for one w_list, positions 0 .. width-1
DecRow(w, cur, width) ==
  [j \in 0..(width - 1) |->
     IF Len(w) = 0 THEN PadId
     ELSE IF j = 0 THEN (IF cur = 1 THEN StartId ELSE LParenId)
     ELSE IF j <= Len(w) THEN w[j]
     ELSE IF j = EndPos(Len(w)) THEN EndId
     ELSE PadId]

SeqMax(S) == CHOOSE m \in S : \A x \in S : x <= m

\* dec_batch[q].size(1)
Width(q) == Cardinality(DOMAIN dec_batch[q][1])

InitTrain ==
  /\ mode = "train"
  /\ pc = "get_dec_batch"
  /\ err = "none"
  /\ use_sibling \in BOOLEAN
  /\ teacher_force_ratio \in TeacherForceRatios
  /\ max_dec_seq_length = TrainSeqLength
  /\ max_dec_tree_depth = TrainTreeDepth
  /\ tgt_tree_batch \in Batches
  /\ queue_tree = [i \in 1..Len(tgt_tree_batch) |->
                     <<[tree |-> tgt_tree_batch[i], parent |-> 0, child_index |-> 1]>>]
  /\ dec_batch = <<>>
  /\ max_index = 1
  /\ cur_index = 1
  /\ dec_state = <<>>
  /\ sibling_state = <<>>
  /\ parent_h = <<>>
  /\ step = 0
  /\ input_word = <<>>
  /\ pred = <<>>
  /\ loss = <<>>
  /\ queue_decode = <<>>
  /\ head = 0
  /\ s = <<>>
  /\ prev_word = PadId
  /\ i_child = 0
  /\ result = <<>>
  /\ prior = <<>>
  /\ copy_in = <<>>
  /\ decoder_output = <<>>
  /\ input_src = <<>>

\* translate starts from the single root entry seeded from the pooled graph embedding
RootEntry ==
  [s |-> << <<Graph("c", 1)>>, <<Graph("h", 1)>> >>, parent |-> 0, child_index |-> 1,
   t |-> Tree(<<>>)]

InitTranslate ==
  /\ mode = "translate"
  /\ pc = "head"
  /\ err = "none"
  /\ use_sibling \in BOOLEAN
  /\ teacher_force_ratio = 0
  /\ max_dec_seq_length \in 1..MaxSeqLength
  /\ max_dec_tree_depth \in 1..MaxTreeDepth
  /\ tgt_tree_batch = <<>>
  /\ queue_tree = <<>>
  /\ dec_batch = <<>>
  /\ max_index = 0
  /\ cur_index = 0
  /\ dec_state = <<>>
  /\ sibling_state = <<>>
  /\ parent_h = <<>>
  /\ step = 0
  /\ input_word = <<>>
  /\ pred = <<>>
  /\ loss = <<>>
  /\ queue_decode = <<RootEntry>>
  /\ head = 1
  /\ s = <<>>
  /\ prev_word = PadId
  /\ i_child = 0
  /\ result = <<>>
  /\ prior = <<>>
  /\ copy_in = <<>>
  /\ decoder_output = <<>>
  /\ input_src = <<>>

Init == InitTrain \/ InitTranslate

\* one iteration of the while loop of get_dec_batch
GetDecBatchLevel ==
  /\ mode = "train" /\ pc = "get_dec_batch"
  /\ cur_index <= max_index
  /\ LET w_lists == [i \in Rows |-> WListAt(queue_tree[i], cur_index)]
         grown == [i \in Rows |->
                     IF cur_index <= Len(queue_tree[i])
                     THEN queue_tree[i] \o NewEntries(queue_tree[i][cur_index].tree, cur_index)
                     ELSE queue_tree[i]]
         max_w_len == SeqMax({Len(w_lists[i]) : i \in Rows} \cup {-1})
         new_max == SeqMax({max_index} \cup
                           {Len(grown[i]) : i \in {r \in Rows : cur_index <= Len(queue_tree[r])}})
     IN  /\ queue_tree' = grown
         /\ max_index' = new_max
         /\ dec_batch' = Append(dec_batch,
                                [i \in Rows |-> DecRow(w_lists[i], cur_index, max_w_len + 2)])
         /\ IF cur_index + 1 <= new_max
            THEN /\ cur_index' = cur_index + 1
                 /\ pc' = "get_dec_batch"
            ELSE /\ cur_index' = 1
                 /\ pc' = "alloc"
  /\ UNCHANGED <<configVars, err, teacher_force_ratio, tgt_tree_batch, dec_state,
                 sibling_state, parent_h, step, input_word, pred, loss, translateVars>>

(* -------------------------- _run_forward_pass ------------------------- *)
\* the (max_dec_tree_depth + 1) x (max_dec_seq_length + 1) table of empty dicts
AllocDecState ==
  /\ mode = "train" /\ pc = "alloc"
  /\ dec_state' = [q \in 0..max_dec_tree_depth |-> [j \in 0..max_dec_seq_length |-> <<>>]]
  /\ pc' = "level"
  /\ UNCHANGED <<configVars, err, teacher_force_ratio, tgt_tree_batch, queue_tree,
                 dec_batch, max_index, cur_index, sibling_state, parent_h, step,
                 input_word, pred, loss, translateVars>>

\* dec_state[q][j] is a key of the table and holds a (cell, hidden) pair
HasState(q, j) ==
  /\ q \in DOMAIN dec_state
  /\ j \in DOMAIN dec_state[q]
  /\ dec_state[q][j] # <<>>

\* mutation: the state before the step that produced the child
SeedStep_Mutant(entry) == entry.child_index - 1

\* the step of the parent position whose state seeds the child recorded in entry
SeedStep(entry) == entry.child_index

\* the q_index values (0-based) the sibling scan of position cur matches in queue q
SiblingMatches(q, cur) ==
  {q_index \in 0..(Len(q) - 1) :
     /\ cur <= Len(q)
     /\ q_index < cur - 1
     /\ q[q_index + 1].parent = q[cur].parent
     /\ q[q_index + 1].child_index < q[cur].child_index}

\* sibling_index after the scan: the last match
SiblingIndex(q, cur) == SeqMax(SiblingMatches(q, cur))

\* mutation: the key two above sibling_index is read
SiblingKey_Mutant(sibling_index) == sibling_index + 2

\* the key of dec_state and dec_batch that is read for sibling_index
SiblingKey(sibling_index) == sibling_index

\* every table cell the seeding of position cur reads is there
SeedReadsOk(cur) ==
  \A i \in Rows :
    /\ cur <= Len(queue_tree[i]) =>
         HasState(queue_tree[i][cur].parent, SeedStep(queue_tree[i][cur]))
    /\ SiblingMatches(queue_tree[i], cur) # {} =>
         LET k == SiblingKey(SiblingIndex(queue_tree[i], cur))
         IN  k \in DOMAIN dec_batch /\ HasState(k, Width(k) - 1)

\* mutation: every row of the root level is seeded from the first tree's graph state
SeedRow_Mutant(comp, cur, i) ==
  IF cur = 1 THEN Graph(IF comp = 1 THEN "c" ELSE "h", 1)
  ELSE IF cur <= Len(queue_tree[i])
       THEN dec_state[queue_tree[i][cur].parent][SeedStep(queue_tree[i][cur])][comp][i]
       ELSE Zeros(IF comp = 1 THEN "c" ELSE "h")

\* row i of dec_state[cur][0][comp] after the seeding
SeedRow(comp, cur, i) ==
  IF cur = 1 THEN Graph(IF comp = 1 THEN "c" ELSE "h", i)
  ELSE IF cur <= Len(queue_tree[i])
       THEN dec_state[queue_tree[i][cur].parent][SeedStep(queue_tree[i][cur])][comp][i]
       ELSE Zeros(IF comp = 1 THEN "c" ELSE "h")

\* row i of sibling_state after the scan
SiblingRow(cur, i) ==
  IF cur > 1 /\ SiblingMatches(queue_tree[i], cur) # {}
  THEN LET k == SiblingKey(SiblingIndex(queue_tree[i], cur))
       IN  dec_state[k][Width(k) - 1][2][i]
  ELSE Zeros("h")

\* top of the while loop: the depth test, the seeding and the sibling scan
SeedLevel ==
  /\ mode = "train" /\ pc = "level"
  /\ cur_index <= max_index
  /\ cur_index <= max_dec_tree_depth
  /\ IF cur_index > 1 /\ ~SeedReadsOk(cur_index)
     THEN /\ err' = "KeyError"
          /\ pc' = "error"
          /\ UNCHANGED <<dec_state, sibling_state, parent_h, step>>
     ELSE /\ dec_state' = [dec_state EXCEPT ![cur_index][0] =
                             <<[i \in Rows |-> SeedRow(1, cur_index, i)],
                               [i \in Rows |-> SeedRow(2, cur_index, i)]>>]
          /\ sibling_state' = [i \in Rows |-> SiblingRow(cur_index, i)]
          /\ parent_h' = [i \in Rows |-> SeedRow(2, cur_index, i)]
          /\ step' = 0
          /\ pc' = "decode"
          /\ err' = err
  /\ UNCHANGED <<configVars, teacher_force_ratio, tgt_tree_batch, queue_tree, dec_batch,
                 max_index, cur_index, input_word, pred, loss, translateVars>>

\* mutation: <= in place of <
TeacherForce_Mutant(r, ratio) == r <= ratio

\* random.random() < self.teacher_force_ratio
TeacherForce(r, ratio) == r < ratio

\* the word fed at step i
InputWord(teacher_force, i, cur) ==
  IF teacher_force # TRUE /\ i > 0
  THEN pred
  ELSE [b \in Rows |-> dec_batch[cur][b][i]]

\* mutation: the loss of step i is taken against the column that was fed
TargetPos_Mutant(i) == i

\* the column of dec_batch[cur] that is the target of the loss of step i
TargetPos(i) == i + 1

\* one iteration of the inner loop: decode_step, the state write, the loss term
DecodeStep ==
  /\ mode = "train" /\ pc = "decode"
  /\ step < Width(cur_index) - 1
  /\ \E r \in RandomDraws, p \in [Rows -> TrainPredTokens] :
       /\ input_word' = InputWord(TeacherForce(r, teacher_force_ratio), step, cur_index)
       /\ IF use_sibling
          THEN \* decode_step gets no sibling_state: the cell concatenates None
               /\ err' = "TypeError"
               /\ pc' = "error"
               /\ UNCHANGED <<pred, dec_state, loss, step, cur_index>>
          ELSE /\ pred' = p
               /\ IF ~(step + 1 \in DOMAIN dec_state[cur_index])
                  THEN /\ err' = "KeyError"
                       /\ pc' = "error"
                       /\ UNCHANGED <<dec_state, loss, step, cur_index>>
                  ELSE /\ dec_state' = [dec_state EXCEPT ![cur_index][step + 1] =
                                          <<[b \in Rows |-> StepOut("c", cur_index, step + 1, b)],
                                            [b \in Rows |-> StepOut("h", cur_index, step + 1, b)]>>]
                       /\ loss' = Append(loss,
                                    [pos |-> cur_index, step |-> step,
                                     target |-> [b \in Rows |-> dec_batch[cur_index][b][TargetPos(step)]]])
                       /\ err' = err
                       /\ IF step + 1 < Width(cur_index) - 1
                          THEN /\ step' = step + 1
                               /\ pc' = "decode"
                               /\ cur_index' = cur_index
                          ELSE /\ step' = 0
                               /\ pc' = "level"
                               /\ cur_index' = cur_index + 1
  /\ UNCHANGED <<configVars, teacher_force_ratio, tgt_tree_batch, queue_tree, dec_batch,
                 max_index, sibling_state, parent_h, translateVars>>

\* the loop ends (queue exhausted or depth cap) and the loss is returned
ReturnLoss ==
  /\ mode = "train" /\ pc = "level"
  /\ (cur_index > max_index \/ cur_index > max_dec_tree_depth)
  /\ result' = [loss |-> loss, divided_by |-> tgt_batch_size]
  /\ pc' = "done"
  /\ UNCHANGED <<configVars, err, teacher_force_ratio, tgt_tree_batch, queue_tree,
                 dec_batch, max_index, cur_index, dec_state, sibling_state, parent_h,
                 step, input_word, pred, loss, queue_decode, head, s, prev_word, i_child>>

(* ------------------------------ translate ----------------------------- *)
\* the queue entry whose stored state is the sibling state of position h
TranslateSiblingEntry(sibling_index) == sibling_index + 1

\* sibling_state of position h: zeros, or the stored hidden state of the last match
TranslateSibling(q, h) ==
  IF SiblingMatches(q, h) # {}
  THEN q[TranslateSiblingEntry(SiblingIndex(q, h))].s[2]
  ELSE <<Zeros("h")>>

\* mutation: the depth cap is not tested
LoopsOn_Mutant(h) == h <= Len(queue_decode)

\* the condition of the while loop on head
LoopsOn(h) == h <= Len(queue_decode) /\ h <= max_dec_tree_depth

\* top of the while loop on head: state, sibling scan and first input word
BeginPosition ==
  /\ mode = "translate" /\ pc = "head"
  /\ LoopsOn(head)
  /\ s' = queue_decode[head].s
  /\ parent_h' = queue_decode[head].s[2]
  /\ sibling_state' = TranslateSibling(queue_decode, head)
  /\ prev_word' = IF head = 1 THEN StartId ELSE LParenId
  /\ i_child' = 1
  /\ pc' = "step"
  /\ UNCHANGED <<configVars, err, trainVars, pred, queue_decode, head, result>>

\* mutation: the length cap is not tested
StopsPosition_NoCap(word, t) == word = EndId

\* mutation: > in place of >=
StopsPosition_Late(word, t) == word = EndId \/ num_children(t) > max_dec_seq_length

\* the test that ends the decoding of a position
StopsPosition(word, t) == word = EndId \/ num_children(t) >= max_dec_seq_length

\* t.add_child(word)
add_child(t, word) == Tree(Append(t.children, Word(word)))

\* mutation: the new entry names the position after head as its parent
ChildEntry_Mutant(state, h, ic) ==
  [s |-> state, parent |-> h + 1, child_index |-> ic, t |-> Tree(<<>>)]

\* the entry appended for a non-terminal predicted at position h
ChildEntry(state, h, ic) ==
  [s |-> state, parent |-> h, child_index |-> ic, t |-> Tree(<<>>)]

\* one iteration of the greedy while True loop
GreedyStep ==
  /\ mode = "translate" /\ pc = "step"
  /\ \E word \in PredTokens :
       IF use_sibling
       THEN \* decode_step gets no sibling_state: the cell concatenates None
            /\ err' = "TypeError"
            /\ pc' = "error"
            /\ UNCHANGED <<s, prev_word, queue_decode, i_child, head>>
       ELSE LET t == queue_decode[head].t
                curr == << <<StepOut("c", head, i_child, 1)>>,
                           <<StepOut("h", head, i_child, 1)>> >>
            IN  /\ s' = curr
                /\ prev_word' = word
                /\ err' = err
                /\ IF StopsPosition(word, t)
                   THEN /\ head' = head + 1
                        /\ pc' = "head"
                        /\ UNCHANGED <<queue_decode, i_child>>
                   ELSE /\ queue_decode' =
                             LET grown == IF word = NonTerminalId
                                          THEN Append(queue_decode, ChildEntry(curr, head, i_child))
                                          ELSE queue_decode
                             IN  [grown EXCEPT ![head].t = add_child(t, word)]
                        /\ i_child' = i_child + 1
                        /\ pc' = "step"
                        /\ head' = head
  /\ UNCHANGED <<configVars, trainVars, sibling_state, parent_h, pred, result>>

\* mutation: child_index is used as it is on a list that counts from the slot before
AssemblySlot_Mutant(cur) == cur.child_index - 1

\* the slot of the parent's children that receives the tree of entry cur
AssemblySlot(cur) == cur.child_index

\* queue_decode[cur["parent"] - 1]["t"].children[cur["child_index"] - 1] = cur["t"]
Attach(q, i) ==
  LET cur == q[i + 1]
  IN  [q EXCEPT ![cur.parent].t.children[AssemblySlot(cur)] = cur.t]

\* the slot that iteration i of the assembly loop assigns exists
SlotExists(q, i) ==
  LET cur == q[i + 1]
  IN  /\ cur.parent \in 1..Len(q)
      /\ AssemblySlot(cur) \in 1..num_children(q[cur.parent].t)

RECURSIVE AssembleFrom(_, _)
\* the assembly loop run on queue q from index i down to 1 (it stops where the
\* list assignment raises)
AssembleFrom(q, i) ==
  IF i < 1 \/ ~SlotExists(q, i) THEN q ELSE AssembleFrom(Attach(q, i), i - 1)

\* the while loop on head has ended: the assembly loop, i from
\* len(queue_decode) - 1 down to 1, and the return of queue_decode[0]["t"]
Assemble ==
  /\ mode = "translate" /\ pc = "head"
  /\ ~LoopsOn(head)
  /\ queue_decode' = AssembleFrom(queue_decode, Len(queue_decode) - 1)
  /\ IF \A i \in 1..(Len(queue_decode) - 1) : SlotExists(queue_decode, i)
     THEN /\ result' = queue_decode'[1].t
          /\ pc' = "done"
          /\ err' = err
     ELSE /\ err' = "IndexError"
          /\ pc' = "error"
          /\ result' = result
  /\ UNCHANGED <<configVars, trainVars, sibling_state, parent_h, pred, head, s,
                 prev_word, i_child>>

Next ==
  \/ GetDecBatchLevel
  \/ AllocDecState
  \/ SeedLevel
  \/ DecodeStep
  \/ ReturnLoss
  \/ BeginPosition
  \/ GreedyStep
  \/ Assemble

Spec == Init /\ [][Next]_vars

(* --------------------- training on a reordered batch ------------------- *)
\* the orders the trees of a batch of n trees can be handed over in
Perms(n) ==
  {p \in [1..n -> 1..n] : \A a, b \in 1..n : p[a] = p[b] => a = b}

\* the seed cells dec_state[q][0] of the levels that were seeded
SeedCells ==
  [q \in {l \in DOMAIN dec_state : dec_state[l][0] # <<>>} |-> dec_state[q][0]]

\* _run_forward_pass has ended (loss returned or exception raised) and is called
\* again with the same trees in another order: row j now holds the tree that
\* was row p[j]
RunPermuted ==
  /\ mode = "train" /\ pc \in {"done", "error"}
  /\ prior = <<>>
  /\ \E p \in Perms(tgt_batch_size) :
       /\ p # [j \in Rows |-> j]
       /\ prior' = [perm |-> p, pc |-> pc, err |-> err, queue_tree |-> queue_tree,
                    dec_batch |-> dec_batch, max_index |-> max_index,
                    seeds |-> SeedCells, loss |-> loss, result |-> result]
       /\ tgt_tree_batch' = [j \in Rows |-> tgt_tree_batch[p[j]]]
       /\ queue_tree' = [j \in Rows |->
                           <<[tree |-> tgt_tree_batch[p[j]], parent |-> 0, child_index |-> 1]>>]
  /\ pc' = "get_dec_batch"
  /\ err' = "none"
  /\ dec_batch' = <<>>
  /\ max_index' = 1
  /\ cur_index' = 1
  /\ dec_state' = <<>>
  /\ sibling_state' = <<>>
  /\ parent_h' = <<>>
  /\ step' = 0
  /\ input_word' = <<>>
  /\ pred' = <<>>
  /\ loss' = <<>>
  /\ result' = <<>>
  /\ UNCHANGED <<mode, use_sibling, max_dec_seq_length, max_dec_tree_depth,
                 teacher_force_ratio, queue_decode, head, s, prev_word, i_child,
                 copy_in, decoder_output, input_src>>

\* training with teacher_force_ratio = 1.0 on a batch of two or more trees
InitPerm == InitTrain /\ teacher_force_ratio = 100 /\ Len(tgt_tree_batch) >= 2

NextPerm ==
  \/ GetDecBatchLevel
  \/ AllocDecState
  \/ SeedLevel
  \/ DecodeStep
  \/ ReturnLoss
  \/ RunPermuted

SpecPerm == InitPerm /\ [][NextPerm]_vars

(* ----------------------- decode_step: copy mixing ---------------------- *)
\* Probabilities are counted in parts of 1/ProbUnit, products of two of them in
\* parts of 1/ProbUnit^2.  The recurrent cell, the attention and the linear
\* layers are not modelled: the softmax of the logits, the attention weights
\* and the sigmoid of the pointer gate are inputs drawn from all their values.
RECURSIVE SumOver(_, _)
\* the sum of f over the set D of its arguments
SumOver(f, D) ==
  IF D = {} THEN 0
  ELSE LET x == CHOOSE y \in D : TRUE IN f[x] + SumOver(f, D \ {x})

Total(f) == SumOver(f, DOMAIN f)

\* len(oov_dict): the words of tgt_vocab and the out-of-vocabulary source words
ExtVocabSize == TgtVocabSize + OovWords

\* torch.softmax(decoder_output, dim=-1): one entry per output word, summing to 1
Softmaxes == {g \in [0..(TgtVocabSize - 1) -> 0..ProbUnit] : Total(g) = ProbUnit}

\* the attention weights over the source positions
AttnScores == {a \in [0..(SrcLength - 1) -> 0..ProbUnit] : Total(a) <= ProbUnit}

\* enc_batch: the extended-vocabulary id of every source position
EncBatches == [0..(SrcLength - 1) -> 0..(ExtVocabSize - 1)]

\* what one call of decode_step is given and what the network computes in it:
\* the caller's tensor of token ids (one per row), the index of the unknown
\* token in tgt_vocab, and the inputs of the mixing
CallInputs(c, eg, g, a, p, e, unk, tokens) ==
  [use_copy |-> c, enc_given |-> eg, gen_output |-> g, attn_scores |-> a,
   prob_ptr |-> p, enc_batch |-> e, unk |-> unk, dec_single_input |-> tokens]

\* decode_step is called with the inputs in; input_word is the caller's tensor
DecodeStepCalled(in) ==
  /\ mode = "decode_step"
  /\ pc = "call"
  /\ err = "none"
  /\ copy_in = in
  /\ input_word = in.dec_single_input
  /\ input_src = <<>>
  /\ decoder_output = <<>>
  /\ use_sibling = FALSE
  /\ teacher_force_ratio = 0
  /\ max_dec_seq_length = 1
  /\ max_dec_tree_depth = 1
  /\ tgt_tree_batch = <<>>
  /\ queue_tree = <<>>
  /\ dec_batch = <<>>
  /\ max_index = 0
  /\ cur_index = 0
  /\ dec_state = <<>>
  /\ sibling_state = <<>>
  /\ parent_h = <<>>
  /\ step = 0
  /\ pred = <<>>
  /\ loss = <<>>
  /\ queue_decode = <<>>
  /\ head = 0
  /\ s = <<>>
  /\ prev_word = PadId
  /\ i_child = 0
  /\ result = <<>>
  /\ prior = <<>>

\* one row; the input token is a word of tgt_vocab or the last word of oov_dict
InitCopy ==
  \E t \in {0, ExtVocabSize - 1} :
    \/ \E g \in Softmaxes, a \in AttnScores, p \in 0..ProbUnit, e \in EncBatches :
         DecodeStepCalled(CallInputs(TRUE, TRUE, g, a, p, e, TgtVocabSize - 1, <<t>>))
    \/ \E g \in Softmaxes, a \in AttnScores, c \in BOOLEAN :
         DecodeStepCalled(CallInputs(c, FALSE, g, a, 0, <<>>, TgtVocabSize - 1, <<t>>))

\* mutation: > in place of >=
IsOov_Mutant(token) == token > TgtVocabSize

\* tokens >= vocab.vocab_size
IsOov(token) == token >= TgtVocabSize

\* _filter_oov: the tensor it returns, and the caller's tensor after the call
FilterOov(tokens, unk) ==
  LET ret == tokens   \* tokens.clone(): a tensor of its own with the same ids
  IN  [ret |-> [b \in DOMAIN ret |-> IF IsOov(tokens[b]) THEN unk ELSE ret[b]],
       tokens |-> tokens]

\* mutation: the generation part is scaled by the pointer share too
ProbGen_Mutant(prob_ptr) == prob_ptr

\* prob_gen = 1 - prob_ptr
ProbGen(prob_ptr) == ProbUnit - prob_ptr

\* torch.cat((ret, zeros(need_pad_length))) followed by
\* output.scatter_add_(1, enc_batch, prob_ptr * ptr_output)
CopyOutput(in) ==
  [w \in 0..(TgtVocabSize + (ExtVocabSize - TgtVocabSize) - 1) |->
     (IF w < TgtVocabSize THEN ProbGen(in.prob_ptr) * in.gen_output[w] ELSE 0)
     + SumOver([k \in DOMAIN in.enc_batch |-> in.prob_ptr * in.attn_scores[k]],
               {k \in DOMAIN in.enc_batch : in.enc_batch[k] = w})]

\* decode_step: the input filter in front of the embedding lookup, then the copy
\* branch (with its two assertions) or the plain softmax
DecodeStepOutput ==
  /\ mode = "decode_step" /\ pc = "call"
  /\ input_src' = FilterOov(input_word, copy_in.unk).ret
  /\ input_word' = FilterOov(input_word, copy_in.unk).tokens
  /\ IF copy_in.use_copy
     THEN IF ~copy_in.enc_given
          THEN /\ err' = "AssertionError"
               /\ pc' = "error"
               /\ decoder_output' = decoder_output
          ELSE /\ decoder_output' = CopyOutput(copy_in)
               /\ pc' = "return"
               /\ err' = err
     ELSE /\ decoder_output' = copy_in.gen_output
          /\ pc' = "return"
          /\ err' = err
  /\ UNCHANGED <<mode, use_sibling, max_dec_seq_length, max_dec_tree_depth, prior,
                 copy_in, tgt_tree_batch, queue_tree, dec_batch, max_index, cur_index,
                 dec_state, step, loss, teacher_force_ratio, translateVars,
                 sibling_state, parent_h, pred>>

NextCopy == DecodeStepOutput

SpecCopy == InitCopy /\ [][NextCopy]_vars

\* decode_step called on a batch of rows with any token ids of oov_dict, any
\* index of tgt_vocab as its unknown token, copy mode off
InitFilter ==
  \E n \in 1..MaxBatch :
    \E tokens \in [1..n -> 0..(ExtVocabSize - 1)], unk \in 0..(TgtVocabSize - 1),
       g \in Softmaxes :
      DecodeStepCalled(CallInputs(FALSE, FALSE, g, [k \in 0..(SrcLength - 1) |-> 0],
                                  0, <<>>, unk, tokens))

SpecFilter == InitFilter /\ [][NextCopy]_vars

(* ------------- greedy inference, then training on its tree ------------- *)
\* translate has returned; _run_forward_pass is called with teacher_force_ratio
\* 1.0 on the one tree translate built, so that the ground-truth tokens of
\* every position are the tokens inference predicted there. The caps of the
\* two are separate: translate takes them as arguments, training from self.
TrainDecoded ==
  /\ mode = "translate" /\ pc = "done"
  /\ prior = <<>>
  /\ prior' = [max_dec_seq_length |-> max_dec_seq_length,
               max_dec_tree_depth |-> max_dec_tree_depth]
  /\ mode' = "train"
  /\ pc' = "get_dec_batch"
  /\ err' = "none"
  /\ teacher_force_ratio' = 100
  /\ max_dec_seq_length' = TrainSeqLength
  /\ max_dec_tree_depth' = TrainTreeDepth
  /\ tgt_tree_batch' = <<queue_decode[1].t>>
  /\ queue_tree' = <<<<[tree |-> queue_decode[1].t, parent |-> 0, child_index |-> 1]>>>>
  /\ dec_batch' = <<>>
  /\ max_index' = 1
  /\ cur_index' = 1
  /\ dec_state' = <<>>
  /\ sibling_state' = <<>>
  /\ parent_h' = <<>>
  /\ step' = 0
  /\ input_word' = <<>>
  /\ pred' = <<>>
  /\ loss' = <<>>
  /\ result' = <<>>
  /\ UNCHANGED <<use_sibling, queue_decode, head, s, prev_word, i_child, copy_in,
                 decoder_output, input_src>>

NextBoth ==
  \/ BeginPosition
  \/ GreedyStep
  \/ Assemble
  \/ TrainDecoded
  \/ GetDecBatchLevel
  \/ AllocDecState
  \/ SeedLevel
  \/ DecodeStep
  \/ ReturnLoss

SpecBoth == InitTranslate /\ [][NextBoth]_vars

(* ====================================================================== *)
(*                               Claims                                   *)
(* ====================================================================== *)
\* get_dec_batch has returned
TrainLinearized == mode = "train" /\ pc = "alloc"

\* the tokens a row of dec_batch carries: those after position 0 and before the
\* first end or padding id
RowTokens(row) ==
  LET stops == {j \in DOMAIN row : j >= 1 /\ row[j] \in {EndId, PadId}}
      n == IF stops = {} THEN Cardinality(DOMAIN row) - 1
           ELSE (CHOOSE j \in stops : \A k \in stops : j <= k) - 1
  IN  [j \in 1..n |-> row[j]]

\* the queue that translate would hold for tree i: one entry per queue position,
\* its tree made of the tokens of the row of that position
RebuiltQueue(i) ==
  [q \in 1..Len(queue_tree[i]) |->
     [parent |-> queue_tree[i][q].parent,
      child_index |-> queue_tree[i][q].child_index,
      t |-> Tree([j \in 1..Len(RowTokens(dec_batch[q][i])) |->
                    Word(RowTokens(dec_batch[q][i])[j])])]]

Rebuilt(i) == AssembleFrom(RebuiltQueue(i), Len(queue_tree[i]) - 1)[1].t

\* C1: when get_dec_batch has linearized the batch, rebuilding each tree from its
\* queue entries (row tokens, parent, child_index) with the assembly loop of
\* translate gives back the ground-truth tree.
C1_RoundTrip ==
  TrainLinearized => \A i \in Rows : Rebuilt(i) = tgt_tree_batch[i]

\* a tree with a subtree inside a subtree, next to a word, was rebuilt
C1_Witness ==
  /\ TrainLinearized
  /\ \E i \in Rows :
       /\ \E k \in 1..Len(queue_tree[i]) : queue_tree[i][k].parent >= 2
       /\ \E k \in 1..Len(queue_tree[i]) : queue_tree[i][k].child_index >= 2
       /\ Rebuilt(i) = tgt_tree_batch[i]

RECURSIVE ReachesRoot(_, _)
\* following the parent links from entry k of queue q ends at entry 1
ReachesRoot(q, k) ==
  IF k = 1 THEN q[1].parent = 0
  ELSE /\ q[k].parent \in 1..(k - 1)
       /\ ReachesRoot(q, q[k].parent)

ParentsBelow(q) ==
  \A k \in 1..Len(q) :
    /\ (q[k].parent = 0) = (k = 1)
    /\ q[k].parent < k
    /\ ReachesRoot(q, k)

\* C9: in every state, in queue_tree of every tree and in queue_decode, the parent
\* of an entry is smaller than the entry's own 1-based index, only the root has
\* parent 0, and the parent links of every entry lead to the root.
C9_ParentBeforeChild ==
  /\ \A i \in DOMAIN queue_tree : ParentsBelow(queue_tree[i])
  /\ ParentsBelow(queue_decode)

\* translate has appended an entry whose parent is not the root
C9_Witness ==
  /\ mode = "translate"
  /\ \E k \in 1..Len(queue_decode) : queue_decode[k].parent >= 2
  /\ ParentsBelow(queue_decode)

\* number of children of the node of tree i at position q (0 without an entry)
KidsAt(i, q) ==
  IF q <= Len(queue_tree[i]) THEN num_children(queue_tree[i][q].tree) ELSE 0

MaxKidsAt(q) == SeqMax({KidsAt(i, q) : i \in Rows})

\* the marker at position 0 of a row: start at the root, '(' elsewhere
FirstToken(q) == IF q = 1 THEN StartId ELSE LParenId

NearestLeftSibling(q, cur) ==
  LET sibs == {k \in 1..Len(q) : /\ k # cur
                                 /\ q[k].parent = q[cur].parent
                                 /\ q[k].child_index < q[cur].child_index}
  IN  IF sibs = {} THEN 0
      ELSE CHOOSE k \in sibs : \A l \in sibs : q[l].child_index <= q[k].child_index

\* the hidden state after the last decode step of position q, row i
TerminalHidden(q, i) == StepOut("h", q, Width(q) - 1, i)

LevelSeeded == mode = "train" /\ pc = "decode"

\* C2 as stated: after the seeding of level cur_index, the sibling state of every
\* tree with an entry there is the terminal hidden state of its nearest left
\* sibling (zeros when it has none).
C2_NearestSiblingState ==
  LevelSeeded =>
    \A i \in Rows :
      cur_index <= Len(queue_tree[i]) =>
        LET sib == NearestLeftSibling(queue_tree[i], cur_index)
        IN  sibling_state[i] = (IF sib = 0 THEN Zeros("h") ELSE TerminalHidden(sib, i))

\* C3: every training decode step feeds, with teacher_force_ratio = 1.0, the
\* ground-truth column of its step, and with teacher_force_ratio = 0.0 the
\* ground-truth column at step 0 and the argmax of the previous prediction after it.
C3_TeacherForcing ==
  [][(mode = "train" /\ pc = "decode") =>
       LET truth == [b \in Rows |-> dec_batch[cur_index][b][step]]
       IN  /\ teacher_force_ratio = 100 => input_word' = truth
           /\ teacher_force_ratio = 0 =>
                input_word' = (IF step = 0 THEN truth ELSE pred)]_vars

\* with ratio 0.0 a step after the first was fed the argmax, which differs from
\* the ground-truth token of that step
C3_Witness ==
  /\ mode = "train" /\ pc = "decode" /\ step >= 2
  /\ teacher_force_ratio = 0
  /\ \E b \in Rows : input_word[b] # dec_batch[cur_index][b][step - 1]

\* C7 as stated: training never raises on a sequence longer than
\* max_dec_seq_length allows or on a tree with more positions than
\* max_dec_tree_depth; it truncates and returns a loss.
C7_OverflowIsNoError ==
  mode = "train" => err # "KeyError"

\* C8 as stated: the state at (q, 0), q > 1, is the state after the last decode
\* step of the parent position; at q = 1 it is the pooled graph representation.
C8_SeedIsParentTerminal ==
  \A q \in DOMAIN dec_state : \A i \in Rows :
    (HasState(q, 0) /\ q <= Len(queue_tree[i])) =>
      LET par == queue_tree[i][q].parent
      IN  /\ q = 1 => dec_state[q][0] = <<[b \in Rows |-> Graph("c", b)],
                                          [b \in Rows |-> Graph("h", b)]>>
          /\ q > 1 => /\ dec_state[q][0][1][i] = StepOut("c", par, Width(par) - 1, i)
                      /\ dec_state[q][0][2][i] = StepOut("h", par, Width(par) - 1, i)

\* C8 amended: the state at (q, 0), q > 1, of a tree with an entry at q is a copy
\* of the parent position's state at step child_index, the state after the
\* decode step whose target is the non-terminal token of that child (not the
\* parent's last step); at q = 1 it is the pooled graph representation.
C8_SeedIsParentStateAtChild ==
  \A q \in DOMAIN dec_state : \A i \in Rows :
    (HasState(q, 0) /\ q <= Len(queue_tree[i])) =>
      LET par == queue_tree[i][q].parent
          ci == queue_tree[i][q].child_index
      IN  /\ q = 1 => dec_state[q][0] = <<[b \in Rows |-> Graph("c", b)],
                                          [b \in Rows |-> Graph("h", b)]>>
          /\ q > 1 => /\ dec_state[q][0][1][i] = StepOut("c", par, ci, i)
                      /\ dec_state[q][0][2][i] = StepOut("h", par, ci, i)
                      /\ dec_batch[par][i][ci] = NonTerminalId
                      /\ ci < Width(par) - 1

\* a position below the root, child of a non-root position and not a first child,
\* has been seeded
C8_Witness ==
  /\ LevelSeeded
  /\ \E i \in Rows :
       /\ cur_index <= Len(queue_tree[i])
       /\ queue_tree[i][cur_index].child_index >= 2
       /\ HasState(cur_index, 0)
  /\ \E i \in Rows :
       /\ cur_index <= Len(queue_tree[i])
       /\ queue_tree[i][cur_index].parent >= 2


\* a natural number that every step of translate decreases
TranslateMeasure ==
  LET X == (max_dec_tree_depth + 1 - head) * (max_dec_seq_length + 3)
  IN  CASE pc = "head" -> 1 + X
        [] pc = "step" -> 1 + X - i_child
        [] OTHER -> 0

\* C4: greedy inference terminates whatever the network predicts: every step of
\* translate decreases a natural-valued measure, a decode step only runs at a
\* position head <= max_dec_tree_depth, and it is at most the
\* (max_dec_seq_length + 1)-th decode step of its position.
C4_GreedyTerminates ==
  [][mode = "translate" =>
       /\ TranslateMeasure' < TranslateMeasure
       /\ TranslateMeasure' >= 0
       /\ pc = "step" => /\ head <= max_dec_tree_depth
                         /\ i_child <= max_dec_seq_length + 1]_vars

\* the network predicted the non-terminal at every step: every processed
\* position is full and translate has returned
C4_Witness ==
  /\ mode = "translate" /\ pc = "done"
  /\ max_dec_tree_depth = MaxTreeDepth /\ max_dec_seq_length = MaxSeqLength
  /\ Len(queue_decode) = 1 + max_dec_tree_depth * max_dec_seq_length

\* C5: a decode step taken when the node of the position already has
\* max_dec_seq_length children ends the position, leaves trees and queue as they
\* are and raises nothing; no node ever has more than max_dec_seq_length children.
C5_CapDiscardsToken ==
  [][mode = "translate" =>
       /\ (pc = "step" /\ num_children(queue_decode[head].t) >= max_dec_seq_length) =>
            /\ queue_decode' = queue_decode
            /\ err' = "none"
            /\ pc' = "head" /\ head' = head + 1
       /\ \A k \in 1..Len(queue_decode') :
            num_children(queue_decode'[k].t) <= max_dec_seq_length]_vars

\* a position was ended by the cap while the token just predicted was the
\* non-terminal: no entry and no child stand for it
C5_Witness ==
  /\ mode = "translate" /\ pc = "head" /\ head > 1
  /\ prev_word = NonTerminalId
  /\ num_children(queue_decode[head - 1].t) = max_dec_seq_length
  /\ Cardinality({k \in 1..Len(queue_decode) : queue_decode[k].parent = head - 1})
       <= max_dec_seq_length

RECURSIVE ResultNode(_)
\* the node of the returned tree that stands for queue entry k
ResultNode(k) ==
  IF k = 1 THEN result
  ELSE ResultNode(queue_decode[k].parent).children[queue_decode[k].child_index]

\* C6: a queue entry beyond max_dec_tree_depth is never decoded: its tree stays
\* empty, no entry names it as parent, nothing is raised, and the returned tree
\* holds an empty subtree in its slot.
C6_BeyondDepthLeftEmpty ==
  mode = "translate" =>
    \A k \in 1..Len(queue_decode) :
      k > max_dec_tree_depth =>
        /\ queue_decode[k].t = Tree(<<>>)
        /\ \A l \in 1..Len(queue_decode) : queue_decode[l].parent # k
        /\ err = "none"
        /\ pc # "error"
        /\ pc = "done" => ResultNode(k) = Tree(<<>>)

\* max_dec_tree_depth = 1 and the root predicted a word and a non-terminal: the
\* returned root holds the word and an empty subtree
C6_Witness ==
  /\ mode = "translate" /\ pc = "done" /\ max_dec_tree_depth = 1
  /\ Len(queue_decode) = 2
  /\ result = Tree(<<Word(7), Tree(<<>>)>>)

\* C11 as stated: a tree without queue entry at position q is skipped at level q:
\* no loss term of level q has a target for that tree's row, and no decode step
\* of level q writes a state for that row.
C11_NoEntrySkipped ==
  mode = "train" =>
    \A i \in Rows :
      /\ \A k \in 1..Len(loss) :
           loss[k].pos > Len(queue_tree[i]) => i \notin DOMAIN loss[k].target
      /\ \A q \in DOMAIN dec_state : \A j \in DOMAIN dec_state[q] :
           (q > Len(queue_tree[i]) /\ j >= 1 /\ HasState(q, j)) =>
             dec_state[q][j][2][i] # StepOut("h", q, j, i)

\* the state row v of the reordered run, named as a row of the first run
Renamed(v) == IF v.src = "zeros" THEN v ELSE [v EXCEPT !.row = prior.perm[v.row]]

\* the level and step of the decode step that ran last (level 0 before the first)
LastFed ==
  IF pc = "decode" /\ step >= 1 THEN [pos |-> cur_index, step |-> step - 1]
  ELSE IF pc \in {"level", "done"} /\ cur_index >= 2
       THEN [pos |-> cur_index - 1, step |-> Width(cur_index - 1) - 2]
       ELSE [pos |-> 0, step |-> 0]

\* C12: with teacher_force_ratio = 1.0, the token fed to a tree at a decode step
\* is the column of that step in the tree's row, in a first run and in a run on
\* the same trees in another order, and the rows are the same in both runs.
\* When the second run has ended, it has ended the same way as the first
\* (return or exception), and every tree has in both runs the same queue
\* entries, the same rows of dec_batch, the same target in every loss term and
\* the same seed source at every seeded level; the loss has the same terms and
\* the same divisor.
C12_BatchOrderInvariant ==
  mode = "train" =>
    /\ LastFed.pos >= 1 =>
         \A i \in Rows :
           /\ input_word[i] = dec_batch[LastFed.pos][i][LastFed.step]
           /\ prior # <<>> =>
                input_word[i] = prior.dec_batch[LastFed.pos][prior.perm[i]][LastFed.step]
    /\ (prior # <<>> /\ pc \in {"done", "error"}) =>
         /\ pc = prior.pc /\ err = prior.err
         /\ max_index = prior.max_index
         /\ DOMAIN dec_batch = DOMAIN prior.dec_batch
         /\ Len(loss) = Len(prior.loss)
         /\ (result = <<>>) = (prior.result = <<>>)
         /\ result # <<>> => /\ result.divided_by = prior.result.divided_by
                             /\ result.loss = loss /\ prior.result.loss = prior.loss
         /\ \A k \in 1..Len(loss) :
              /\ loss[k].pos = prior.loss[k].pos
              /\ loss[k].step = prior.loss[k].step
         /\ DOMAIN SeedCells = DOMAIN prior.seeds
         /\ \A i \in Rows :
              LET o == prior.perm[i]
              IN  /\ queue_tree[i] = prior.queue_tree[o]
                  /\ \A q \in DOMAIN dec_batch : dec_batch[q][i] = prior.dec_batch[q][o]
                  /\ \A k \in 1..Len(loss) : loss[k].target[i] = prior.loss[k].target[o]
                  /\ \A q \in DOMAIN SeedCells : \A c \in 1..2 :
                       Renamed(SeedCells[q][c][i]) = prior.seeds[q][c][o]

\* two different trees, one of them with a subtree, were trained in both orders
\* and both runs returned a loss
C12_Witness ==
  /\ mode = "train" /\ pc = "done" /\ prior # <<>>
  /\ tgt_batch_size = 2
  /\ prior.perm = <<2, 1>>
  /\ tgt_tree_batch[1] # tgt_tree_batch[2]
  /\ max_index >= 2
  /\ Len(loss) >= 3
  /\ \E q \in DOMAIN SeedCells : q >= 2 /\ SeedCells[q][2][1].src = "step"

\* C13: with copy mode on, when the attention weights of the step sum to 1, the
\* returned distribution has one slot per word of the extended vocabulary, each
\* slot holds the generation probability of the word (0 for a word outside
\* tgt_vocab) times one share of the gate plus the attention weights of the
\* source positions holding the word times the other share, the two shares sum
\* to 1, and the slots sum to 1.
C13_CopySumsToOne ==
  (mode = "decode_step" /\ pc = "return" /\ copy_in.use_copy
     /\ Total(copy_in.attn_scores) = ProbUnit) =>
    /\ DOMAIN decoder_output = 0..(ExtVocabSize - 1)
    /\ Total(decoder_output) = ProbUnit * ProbUnit
    /\ \E share \in 0..ProbUnit :
         \A w \in DOMAIN decoder_output :
           decoder_output[w] =
             (IF w < TgtVocabSize THEN share * copy_in.gen_output[w] ELSE 0)
             + (ProbUnit - share) *
                 SumOver(copy_in.attn_scores,
                         {k \in DOMAIN copy_in.enc_batch : copy_in.enc_batch[k] = w})

\* a step whose gate is strictly between 0 and 1, where one word stands at two
\* source positions with attention on both and that word is outside tgt_vocab
C13_Witness ==
  /\ mode = "decode_step" /\ pc = "return" /\ copy_in.use_copy
  /\ Total(copy_in.attn_scores) = ProbUnit
  /\ copy_in.prob_ptr \in 1..(ProbUnit - 1)
  /\ \E k, l \in DOMAIN copy_in.enc_batch :
       /\ k # l
       /\ copy_in.enc_batch[k] = copy_in.enc_batch[l]
       /\ copy_in.enc_batch[k] >= TgtVocabSize
       /\ copy_in.attn_scores[k] > 0 /\ copy_in.attn_scores[l] > 0
       /\ decoder_output[copy_in.enc_batch[k]] =
            copy_in.prob_ptr * (copy_in.attn_scores[k] + copy_in.attn_scores[l])

\* C14 as stated: with use_sibling = True every recurrent step of a queue
\* position, in training and in greedy inference, gets the sibling state that was
\* determined at the start of the position; no step is called without one, so
\* no step fails on a missing sibling state.
C14_SiblingStateFed ==
  (use_sibling /\ mode \in {"train", "translate"}) =>
    /\ err # "TypeError"
    /\ pc # "error"

\* the while loop of training is about to seed level cur_index
SeedsLevel ==
  /\ mode = "train" /\ pc = "level"
  /\ cur_index <= max_index /\ cur_index <= max_dec_tree_depth

\* C15: training processes the levels in increasing order from 1.  When level L
\* is seeded, every level below L has all its cells written (the seed and one
\* state per decode step), no cell of level L or above is written, and the cells
\* the seeding reads (the parent cell at step child_index and the sibling cell)
\* are step outputs of a level below L; the seeding raises nothing.
C15_SeedReadsEarlierLevels ==
  [][/\ (mode = "train" /\ pc \in {"level", "decode"}) =>
          /\ cur_index' \in {cur_index, cur_index + 1}
          /\ cur_index' = cur_index + 1 =>
               (pc = "decode" /\ step' = 0 /\ step = Width(cur_index) - 2)
     /\ (mode = "train" /\ pc = "alloc") => cur_index' = 1
     /\ SeedsLevel =>
          /\ pc' = "decode" /\ err' = "none"
          /\ \A q \in DOMAIN dec_state : \A j \in DOMAIN dec_state[q] :
               q >= cur_index => dec_state[q][j] = <<>>
          /\ \A q \in 1..(cur_index - 1) : \A j \in 0..(Width(q) - 1) : HasState(q, j)
          /\ \A i \in Rows :
               /\ (cur_index > 1 /\ cur_index <= Len(queue_tree[i])) =>
                    LET par == queue_tree[i][cur_index].parent
                        ci == queue_tree[i][cur_index].child_index
                    IN  /\ par \in 1..(cur_index - 1)
                        /\ ci \in 1..(Width(par) - 1)
                        /\ dec_state'[cur_index][0][2][i] = StepOut("h", par, ci, i)
                        /\ dec_state[par][ci][2][i] = StepOut("h", par, ci, i)
               /\ sibling_state'[i] # Zeros("h") =>
                    \E k \in 1..(cur_index - 1) :
                      /\ sibling_state'[i] = StepOut("h", k, Width(k) - 1, i)
                      /\ dec_state[k][Width(k) - 1][2][i] = sibling_state'[i]]_vars

\* level 3 or later was seeded for a tree whose entry there has a left sibling:
\* both the parent cell and a sibling cell were read
C15_Witness ==
  /\ LevelSeeded /\ cur_index >= 3 /\ step = 0
  /\ \E i \in Rows :
       /\ cur_index <= Len(queue_tree[i])
       /\ SiblingMatches(queue_tree[i], cur_index) # {}
       /\ sibling_state[i].src = "step"
       /\ dec_state[cur_index][0][2][i].src = "step"

\* entry k of queue q is an earlier left sibling of entry cur: a lower index, the
\* same parent, a smaller child_index, and not the root
EarlierLeftSibling(q, k, cur) ==
  /\ k \in 2..(cur - 1)
  /\ q[k].parent = q[cur].parent
  /\ q[k].child_index < q[cur].child_index

\* C16 as stated: in training and in greedy inference, the queue entry the
\* sibling scan of position q selects, the one whose state becomes the sibling
\* state, has an index below q, the parent of q and a smaller child_index; it is
\* never q, a later entry or the root.
C16_ScanSelectsEarlierSibling ==
  /\ LevelSeeded =>
       \A i \in Rows :
         SiblingMatches(queue_tree[i], cur_index) # {} =>
           /\ EarlierLeftSibling(queue_tree[i],
                                 SiblingKey(SiblingIndex(queue_tree[i], cur_index)),
                                 cur_index)
           /\ sibling_state[i].pos = SiblingKey(SiblingIndex(queue_tree[i], cur_index))
  /\ (mode = "translate" /\ pc = "step") =>
       (SiblingMatches(queue_decode, head) # {} =>
          /\ EarlierLeftSibling(queue_decode,
                                TranslateSiblingEntry(SiblingIndex(queue_decode, head)),
                                head)
          /\ sibling_state =
               queue_decode[TranslateSiblingEntry(SiblingIndex(queue_decode, head))].s[2])

\* the hidden state after the last greedy decode step of position k: a position
\* takes one step per child of its node and one more, the step that ends it
GreedyTerminalHidden(k) ==
  StepOut("h", k, num_children(queue_decode[k].t) + 1, 1)

\* C17 as stated: in greedy inference the sibling state of position head is the
\* hidden state after the last decode step of its nearest left sibling (zeros
\* without one), not the state stored in the sibling's entry when it was appended.
C17_GreedySiblingTerminal ==
  (mode = "translate" /\ pc = "step") =>
    LET sib == NearestLeftSibling(queue_decode, head)
    IN  IF sib = 0 THEN sibling_state = <<Zeros("h")>>
        ELSE /\ sibling_state = <<GreedyTerminalHidden(sib)>>
             /\ sibling_state # queue_decode[sib].s[2]

RECURSIVE StepsBelow(_)
\* the number of decode steps of the levels below q
StepsBelow(q) == IF q <= 1 THEN 0 ELSE StepsBelow(q - 1) + (Width(q - 1) - 1)

\* the last level training processes
LastLevel == IF max_index < max_dec_tree_depth THEN max_index ELSE max_dec_tree_depth

\* C18: in training no decode step runs and no loss term is added for a queue
\* position above max_dec_tree_depth; the loss terms are, level by level, the
\* steps 0 .. width(q) - 2 of each processed level q, each with column step + 1
\* of dec_batch[q] as target; when the loss is returned every level up to
\* min(max_index, max_dec_tree_depth) has its width(q) - 1 terms and the sum is
\* divided by the batch size, once.
C18_DepthCapAndLossTerms ==
  (mode = "train" /\ pc \in {"level", "decode", "done", "error"}) =>
    /\ pc = "decode" => cur_index <= LastLevel
    /\ \A k \in 1..Len(loss) :
         LET q == loss[k].pos
             i == loss[k].step
         IN  /\ q \in 1..LastLevel
             /\ i \in 0..(Width(q) - 2)
             /\ k = StepsBelow(q) + i + 1
             /\ loss[k].target = [b \in Rows |-> dec_batch[q][b][i + 1]]
    /\ pc = "done" =>
         /\ Len(loss) = StepsBelow(LastLevel + 1)
         /\ result = [loss |-> loss, divided_by |-> Len(tgt_tree_batch)]

\* a batch of two trees, one with more queue positions than max_dec_tree_depth:
\* training returned and the positions above the cap added nothing
C18_Witness ==
  /\ mode = "train" /\ pc = "done"
  /\ tgt_batch_size = 2
  /\ max_index > max_dec_tree_depth
  /\ Len(loss) = StepsBelow(max_dec_tree_depth + 1)
  /\ Len(loss) >= 2 * max_dec_tree_depth
  /\ result.divided_by = 2

\* the queue entries that point at slot j of the tree of entry k
EntriesFor(k, j) ==
  {e \in 1..Len(queue_decode) :
     queue_decode[e].parent = k /\ queue_decode[e].child_index = j}

RECURSIVE HasPlaceholder(_)
\* the tree holds the non-terminal id as a word somewhere
HasPlaceholder(t) ==
  \E j \in 1..num_children(t) :
    IF IsTree(t.children[j]) THEN HasPlaceholder(t.children[j])
    ELSE t.children[j].word = NonTerminalId

\* C19: while translate decodes, a child of an entry's tree is the non-terminal
\* id exactly when one queue entry points at its slot, and no slot has two
\* entries.  After the assembly every non-root entry's tree stands at slot
\* child_index of the tree of its parent entry, every other child is a word that
\* is not the non-terminal id, the returned tree holds no non-terminal id at any
\* depth, and it is the root entry's tree; the assembly never assigns to a slot
\* that is not there.
C19_AssemblyFillsEverySlot ==
  mode = "translate" =>
    /\ \A k \in 1..Len(queue_decode) :
         /\ \A e \in 2..Len(queue_decode) :
              queue_decode[e].parent = k =>
                queue_decode[e].child_index \in 1..num_children(queue_decode[k].t)
         /\ \A j \in 1..num_children(queue_decode[k].t) :
              LET c == queue_decode[k].t.children[j]
              IN  /\ Cardinality(EntriesFor(k, j)) <= 1
                  /\ pc \in {"head", "step"} =>
                       /\ ~IsTree(c)
                       /\ (c.word = NonTerminalId) = (EntriesFor(k, j) # {})
                  /\ pc = "done" =>
                       /\ IsTree(c) = (EntriesFor(k, j) # {})
                       /\ ~IsTree(c) => c.word # NonTerminalId
    /\ pc = "done" =>
         /\ \A e \in 2..Len(queue_decode) :
              queue_decode[queue_decode[e].parent].t.children[queue_decode[e].child_index]
                = queue_decode[e].t
         /\ result = queue_decode[1].t
         /\ ~HasPlaceholder(result)
    /\ err # "IndexError"

\* translate returned a tree with a subtree inside a subtree and a word next to
\* a subtree
C19_Witness ==
  /\ mode = "translate" /\ pc = "done"
  /\ \E e \in 2..Len(queue_decode) : queue_decode[e].parent >= 2
  /\ \E e \in 2..Len(queue_decode) :
       /\ queue_decode[e].child_index = 2
       /\ ~IsTree(queue_decode[queue_decode[e].parent].t.children[1])
  /\ ~HasPlaceholder(result)

\* the entries of queue q that name slot j of position pos
QueueEntriesFor(q, pos, j) ==
  {e \in 1..Len(q) : q[e].parent = pos /\ q[e].child_index = j}

\* C20: while get_dec_batch runs and when it returns, for every queue position
\* it has linearized, the row of the
\* node holds at 1..k one token per child in child order, 4 for a subtree and
\* the word's id for a word; every subtree child has exactly one queue entry,
\* with this position as parent, the child's 1-based index as child_index and
\* the child as tree, a word child has none, and no entry names a slot the node
\* does not have.  A root whose only child is a subtree has the row
\* start, 4, end at position 1, followed by padding only.
C20_OneTokenAndEntryPerChild ==
  (mode = "train" /\ pc \in {"get_dec_batch", "alloc"}) =>
    \A i \in Rows : \A q \in DOMAIN dec_batch :
      q <= Len(queue_tree[i]) =>
        LET t == queue_tree[i][q].tree
            k == num_children(t)
            row == dec_batch[q][i]
        IN  /\ \A j \in 1..k :
                 LET es == QueueEntriesFor(queue_tree[i], q, j)
                 IN  IF IsTree(t.children[j])
                     THEN /\ row[j] = NonTerminalId
                          /\ Cardinality(es) = 1
                          /\ \A e \in es : queue_tree[i][e].tree = t.children[j] /\ e > q
                     ELSE /\ row[j] = t.children[j].word
                          /\ es = {}
            /\ \A e \in 1..Len(queue_tree[i]) :
                 queue_tree[i][e].parent = q => queue_tree[i][e].child_index \in 1..k
            /\ (q = 1 /\ k = 1 /\ IsTree(t.children[1])) =>
                 /\ row[0] = StartId /\ row[1] = NonTerminalId /\ row[2] = EndId
                 /\ \A j \in DOMAIN row : j > 2 => row[j] = PadId
                 /\ tgt_batch_size = 1 => DOMAIN row = 0..2

\* a single tree whose root has one child, a subtree that holds a word in front
\* of a subtree, was linearized
C20_Witness ==
  /\ TrainLinearized
  /\ tgt_batch_size = 1
  /\ num_children(tgt_tree_batch[1]) = 1
  /\ IsTree(tgt_tree_batch[1].children[1])
  /\ dec_batch[1][1] = [j \in 0..2 |-> <<StartId, NonTerminalId, EndId>>[j + 1]]
  /\ \E q \in DOMAIN dec_batch :
       /\ q <= Len(queue_tree[1])
       /\ num_children(queue_tree[1][q].tree) = 2
       /\ ~IsTree(queue_tree[1][q].tree.children[1])
       /\ QueueEntriesFor(queue_tree[1], q, 2) # {}

\* queue q is in breadth-first discovery order: parents never decrease along it
\* and entries of one parent come in increasing child_index
DiscoveryOrder(q) ==
  \A k \in 1..(Len(q) - 1) :
    /\ q[k].parent <= q[k + 1].parent
    /\ q[k].parent = q[k + 1].parent => q[k].child_index < q[k + 1].child_index

\* queue q2 is queue q1 with entries added at its end: no entry of q1 has moved,
\* gone, or changed its parent or child_index
GrownAtEnd(q1, q2) ==
  /\ Len(q2) >= Len(q1)
  /\ \A k \in 1..Len(q1) :
       /\ q2[k].parent = q1[k].parent
       /\ q2[k].child_index = q1[k].child_index

\* C21: before and after every step of get_dec_batch, of training and of
\* translate, queue_tree of every tree and queue_decode are in breadth-first
\* discovery order, and the step only adds entries at the end of a queue: the
\* entries it found keep their place, their parent and their child_index (and,
\* in queue_tree, their tree).
C21_BreadthFirstAppendOnly ==
  [][/\ \A i \in DOMAIN queue_tree :
          /\ DiscoveryOrder(queue_tree[i])
          /\ DiscoveryOrder(queue_tree'[i])
          /\ GrownAtEnd(queue_tree[i], queue_tree'[i])
          /\ \A k \in 1..Len(queue_tree[i]) : queue_tree'[i][k] = queue_tree[i][k]
     /\ DOMAIN queue_tree' = DOMAIN queue_tree
     /\ DiscoveryOrder(queue_decode)
     /\ DiscoveryOrder(queue_decode')
     /\ GrownAtEnd(queue_decode, queue_decode')]_vars

\* translate has returned with a queue that holds two entries of one parent and
\* entries of two different parents below the root
C21_Witness ==
  /\ mode = "translate" /\ pc = "done"
  /\ DiscoveryOrder(queue_decode)
  /\ \E k \in 2..(Len(queue_decode) - 1) :
       queue_decode[k].parent = queue_decode[k + 1].parent
  /\ \E k \in 2..(Len(queue_decode) - 1) :
       queue_decode[k].parent < queue_decode[k + 1].parent

\* C22: when decode_step has run, every id handed to the embedding lookup is an
\* index of tgt_vocab: an input id at or above vocab_size was replaced by the
\* index of the unknown token, an id below vocab_size was passed as it is, and
\* the caller's tensor holds the ids it held at the call.
C22_LookupInsideVocabulary ==
  (mode = "decode_step" /\ pc \in {"return", "error"}) =>
    /\ DOMAIN input_src = DOMAIN copy_in.dec_single_input
    /\ \A b \in DOMAIN input_src :
         /\ input_src[b] \in 0..(TgtVocabSize - 1)
         /\ copy_in.dec_single_input[b] >= TgtVocabSize => input_src[b] = copy_in.unk
         /\ copy_in.dec_single_input[b] < TgtVocabSize =>
              input_src[b] = copy_in.dec_single_input[b]
    /\ input_word = copy_in.dec_single_input

\* a call with two rows: the first out-of-vocabulary id, which was replaced, and
\* a word of tgt_vocab other than the unknown token, which was not
C22_Witness ==
  /\ mode = "decode_step" /\ pc = "return"
  /\ Len(input_word) = 2
  /\ input_word[1] = TgtVocabSize
  /\ input_src[1] = copy_in.unk
  /\ input_word[2] < TgtVocabSize /\ input_word[2] # copy_in.unk
  /\ input_src[2] = input_word[2]

\* inference ran below its caps: the queue was exhausted within the depth cap
\* and no position took max_dec_seq_length tokens
CapsNotReached ==
  /\ Len(queue_decode) <= prior.max_dec_tree_depth
  /\ \A k \in 1..Len(queue_decode) :
       num_children(queue_decode[k].t) < prior.max_dec_seq_length

\* training runs on the tree inference built with its caps not reached
TrainsDecoded == mode = "train" /\ prior # <<>> /\ CapsNotReached

\* C23 as stated: inference and training at ratio 1.0 on the tree inference
\* built schedule the same decode steps. Inference feeds the start token at
\* position 1 and '(' at every other position; training has the same queue of
\* (parent, child_index) when the linearization ends, and at step 0 of every
\* position it feeds that same first token, feeds the hidden state inference
\* stored for the position as parent state, and starts from the state
\* inference stored, which for a non-root position is the parent's state
\* right after the step whose target is the child's non-terminal token.
C23_SameSchedule ==
  [][ /\ (mode = "translate" /\ pc = "head" /\ pc' = "step") =>
           /\ prev_word' = FirstToken(head)
           /\ parent_h' = queue_decode[head].s[2]
      /\ (TrainsDecoded /\ pc = "get_dec_batch" /\ pc' = "alloc") =>
           /\ Len(queue_tree'[1]) = Len(queue_decode)
           /\ \A q \in 1..Len(queue_decode) :
                /\ queue_tree'[1][q].parent = queue_decode[q].parent
                /\ queue_tree'[1][q].child_index = queue_decode[q].child_index
      /\ (TrainsDecoded /\ pc = "decode" /\ step = 0) =>
           /\ pc' # "error"
           /\ input_word' = <<FirstToken(cur_index)>>
           /\ parent_h = queue_decode[cur_index].s[2]
           /\ dec_state[cur_index][0] = queue_decode[cur_index].s
           /\ cur_index > 1 =>
                LET e == queue_tree[1][cur_index]
                IN  /\ dec_batch[e.parent][1][e.child_index] = NonTerminalId
                    /\ dec_state[cur_index][0] =
                         << <<StepOut("c", e.parent, e.child_index, 1)>>,
                            <<StepOut("h", e.parent, e.child_index, 1)>> >>
    ]_vars

\* the entries of queue q are nodes of the tree root: the first is root itself,
\* every other one is the child its parent entry's node has at child_index
ReferencesNodesOf(q, root) ==
  /\ q[1].tree = root
  /\ \A k \in 2..Len(q) :
       /\ q[k].parent \in 1..(k - 1)
       /\ q[k].child_index \in 1..num_children(q[q[k].parent].tree)
       /\ q[k].tree = q[q[k].parent].tree.children[q[k].child_index]

\* C24: no step of get_dec_batch or of _run_forward_pass changes a tree of
\* tgt_tree_batch (nodes, children and their order stay as they were), and
\* after every step each entry of queue_tree is a node of its own tree of
\* tgt_tree_batch.
C24_TreesUnchanged ==
  [][ mode = "train" =>
        /\ tgt_tree_batch' = tgt_tree_batch
        /\ DOMAIN queue_tree' = DOMAIN tgt_tree_batch
        /\ \A i \in DOMAIN queue_tree' :
             ReferencesNodesOf(queue_tree'[i], tgt_tree_batch[i]) ]_vars

\* _run_forward_pass has returned the loss for a batch in which a tree has an
\* entry for a grandchild of its root, and that entry is the grandchild
C24_Witness ==
  /\ mode = "train" /\ pc = "done"
  /\ \E i \in Rows : \E k \in 3..Len(queue_tree[i]) :
       LET e == queue_tree[i][k]
       IN  /\ e.parent >= 2
           /\ e.tree = tgt_tree_batch[i].children[queue_tree[i][e.parent].child_index]
                                        .children[e.child_index]

=============================================================================
